---------------------------- MODULE Spec2Model ----------------------------
(***************************************************************************)
(* Two-body Keplerian orbit library (src/native/src/lib.rs): Body, the     *)
(* four-variant Orbit enum over KeplerianElements, its element and         *)
(* dynamics queries, the true -> eccentric -> mean anomaly conversions and *)
(* the time-propagation entry point next_anomaly.                          *)
(*                                                                         *)
(* Numbers.  An f64 is modelled as a binary floating-point number with a   *)
(* MantBits-bit significand, round-to-nearest-even, unbounded exponent,    *)
(* and the IEEE special values: a value is a record [n, d] standing for    *)
(* n/d in lowest terms with d > 0, or [1,0] = +inf, [-1,0] = -inf,         *)
(* [0,0] = NaN.  Every arithmetic operation of the code is the exact       *)
(* operation followed by rounding (fl), as IEEE-754 prescribes.  Signed    *)
(* zero is not distinguished.                                              *)
(*                                                                         *)
(* Angles.  The code reads an angle only through cos, sin and tan of half  *)
(* of it, so an angle in (-pi, pi] is carried by its cosine and sine       *)
(* [c, s]; acos and acosh return the principal value (sine, respectively   *)
(* hyperbolic sine, >= 0).                                                 *)
(***************************************************************************)
EXTENDS Integers, Sequences, FiniteSets, TLC

\* Significand width of the modelled floating-point format (f64 has 53).
MantBits == 6
\* Semimajor axes (or periapsis distances) are drawn from -MaxA..MaxA.
MaxA == 2
\* Masses of the non-default bodies are drawn from 1..MaxMass.
MaxMass == 2
\* Anomaly.time_ms is drawn from 0..MaxTime, dT from 0..MaxDT.
MaxTime == 1
MaxDT == 1

---------------------------------------------------------------------------
(* Exact extended rationals *)

Abs(i) == IF i < 0 THEN -i ELSE i
Sign(i) == IF i < 0 THEN -1 ELSE IF i > 0 THEN 1 ELSE 0

RECURSIVE GCD(_, _)
GCD(a, b) == IF b = 0 THEN a ELSE GCD(b, a % b)

RECURSIVE Pow2(_)
Pow2(i) == IF i <= 0 THEN 1 ELSE 2 * Pow2(i - 1)

Norm(n, d) ==
    IF d = 0 THEN [n |-> Sign(n), d |-> 0]
    ELSE LET g == GCD(Abs(n), Abs(d))
         IN  [n |-> Sign(d) * Sign(n) * (Abs(n) \div g), d |-> Abs(d) \div g]

Q(i) == [n |-> i, d |-> 1]
Zero == Q(0)
One == Q(1)
Two == Q(2)
NaN == [n |-> 0, d |-> 0]
Inf == [n |-> 1, d |-> 0]

IsNaN(x) == x.n = 0 /\ x.d = 0
IsFinite(x) == x.d # 0

QNeg(x) == [n |-> -x.n, d |-> x.d]
QAbs(x) == [n |-> Abs(x.n), d |-> x.d]
QAdd(x, y) ==
    IF IsNaN(x) \/ IsNaN(y) THEN NaN
    ELSE IF x.d = 0 /\ y.d = 0 THEN (IF x.n = y.n THEN x ELSE NaN)
    ELSE Norm(x.n * y.d + y.n * x.d, x.d * y.d)
QSub(x, y) == QAdd(x, QNeg(y))
QMul(x, y) == Norm(x.n * y.n, x.d * y.d)
QRecip(y) == IF y.n < 0 THEN [n |-> -y.d, d |-> -y.n] ELSE [n |-> y.d, d |-> y.n]
QDiv(x, y) == QMul(x, QRecip(y))

\* IEEE comparisons: every comparison with NaN is false.
Lt(x, y) == ~IsNaN(x) /\ ~IsNaN(y) /\ x.n * y.d < y.n * x.d
Le(x, y) == ~IsNaN(x) /\ ~IsNaN(y) /\ x.n * y.d <= y.n * x.d
Eq(x, y) == ~IsNaN(x) /\ ~IsNaN(y) /\ x = y

---------------------------------------------------------------------------
(* Rounding to MantBits significant bits, ties to even *)

RECURSIVE ScaleUp(_, _)
\* the least power of two f with a * f >= target  (a > 0)
ScaleUp(a, target) == IF a >= target THEN 1 ELSE 2 * ScaleUp(2 * a, target)

RECURSIVE ScaleDown(_, _)
\* the least power of two f with a < D * f  (D > 0)
ScaleDown(a, D) == IF a < D THEN 1 ELSE 2 * ScaleDown(a, 2 * D)

RoundEven(q, r2, D) ==
    IF r2 < D THEN q
    ELSE IF r2 > D THEN q + 1
    ELSE IF q % 2 = 0 THEN q ELSE q + 1

fl(x) ==
    IF x.d = 0 \/ x.n = 0 THEN x
    ELSE LET a == Abs(x.n)
             s == Sign(x.n)
             lo == Pow2(MantBits - 1)
             hi == Pow2(MantBits)
         IN  IF a >= hi * x.d
             THEN LET f == ScaleDown(a, hi * x.d)
                      D == x.d * f
                      m == RoundEven(a \div D, 2 * (a % D), D)
                  IN  Norm(s * m * f, 1)
             ELSE LET f == ScaleUp(a, lo * x.d)
                      N == a * f
                      m == RoundEven(N \div x.d, 2 * (N % x.d), x.d)
                  IN  Norm(s * m, f)

---------------------------------------------------------------------------
(* f64 operations *)

Neg(x) == QNeg(x)
Add(x, y) == fl(QAdd(x, y))
Sub(x, y) == fl(QSub(x, y))
Mul(x, y) == fl(QMul(x, y))
Div(x, y) == fl(QDiv(x, y))
\* f64::powf with exponent 2.0 and 3.0
Powf2(x) == fl(QMul(x, x))
Powf3(x) == fl(QMul(x, QMul(x, x)))

RECURSIVE ISqrtB(_, _, _)
\* floor of the square root of N, given lo*lo <= N < hi*hi
ISqrtB(N, lo, hi) ==
    IF hi - lo <= 1 THEN lo
    ELSE LET mid == (lo + hi) \div 2
         IN  IF mid * mid <= N THEN ISqrtB(N, mid, hi) ELSE ISqrtB(N, lo, mid)

ISqrt(N) == ISqrtB(N, 0, IF N + 1 < 46341 THEN N + 1 ELSE 46341)

\* f64::sqrt, correctly rounded: NaN below zero.
Sqrt(x) ==
    IF IsNaN(x) \/ x.n < 0 THEN NaN
    ELSE IF x.d = 0 \/ x.n = 0 THEN x
    ELSE LET f == ScaleUp(x.n, x.d * Pow2(2 * MantBits + 2))
             f4 == IF ISqrt(f) * ISqrt(f) = f THEN f ELSE 2 * f
             N == (x.n * f4) \div x.d
             rem == (x.n * f4) % x.d
             r == ISqrt(N)
             h == ISqrt(f4)
         IN  IF r * r = N /\ rem = 0
             THEN fl(Norm(r, h))
             ELSE fl(Norm(2 * r + 1, 2 * h))

---------------------------------------------------------------------------
(* Angles, carried by cosine and sine *)

\* std::f64::consts::PI, rounded to the model's significand
PI == fl([n |-> 355, d |-> 113])

F64(x) == [t |-> "f64", v |-> x]
Angle(c, s) == [t |-> "angle", c |-> c, s |-> s]

cos(ang) == ang.c
sin(ang) == ang.s
sinh(hyp) == hyp.sh
\* (ang / 2.0).tan(), by the half-angle identity sin/(1 + cos)
tan_half(ang) == Div(ang.s, Add(One, ang.c))

\* f64::acos: NaN outside [-1, 1], else the angle in [0, pi] (sine >= 0)
acos(x) ==
    IF IsNaN(x) \/ Lt(One, QAbs(x)) THEN F64(NaN)
    ELSE Angle(x, Sqrt(Sub(One, Mul(x, x))))

\* f64::acosh: NaN below 1, else the non-negative hyperbolic angle
acosh(x) ==
    IF IsNaN(x) \/ Lt(x, One) THEN F64(NaN)
    ELSE IF x = Inf THEN F64(Inf)
    ELSE [t |-> "hyp", ch |-> x, sh |-> Sqrt(Sub(Mul(x, x), One))]

---------------------------------------------------------------------------
(* struct Body *)

\* Units m^3/s^2 (Mass * G)
Body_k(mass, G) == Mul(mass, G)

\* impl Default for Body.  G = 6.67408e-11 is carried in units of 1e-16.
Body_default ==
    LET mass == One
        radius == One
        G == fl(Q(667408))
    IN  [mass |-> radius, radius |-> radius, G |-> G, k |-> Body_k(Zero, G)]

---------------------------------------------------------------------------
(* struct KeplerianElements, enum Orbit *)

KeplerianElements(a, e) ==
    [semimajor_axis |-> a, eccentricity |-> e, inclination |-> Zero,
     ascending_node |-> Zero, angle_of_periapsis |-> Zero]

Circular(el) == [class |-> "Circular", elements |-> el]
Elliptical(el) == [class |-> "Elliptical", elements |-> el]
Parabolic(el) == [class |-> "Parabolic", elements |-> el]
Hyperbolic(el) == [class |-> "Hyperbolic", elements |-> el]

Some(x) == [t |-> "Some", v |-> x]
None == [t |-> "None"]

eccentricity(self) ==
    CASE self.class = "Circular" -> Zero
      [] self.class = "Elliptical" -> self.elements.eccentricity
      [] self.class = "Parabolic" -> One
      [] self.class = "Hyperbolic" -> self.elements.eccentricity

semimajor_axis(self) ==
    CASE self.class = "Circular" -> Some(self.elements.semimajor_axis)
      [] self.class = "Elliptical" -> Some(self.elements.semimajor_axis)
      [] self.class = "Parabolic" -> None
      [] self.class = "Hyperbolic" -> Some(self.elements.semimajor_axis)

\* q
periapsis(self) ==
    LET elements == self.elements
    IN  CASE self.class = "Circular" -> elements.semimajor_axis
          [] self.class = "Elliptical" ->
                Mul(elements.semimajor_axis, Sub(One, elements.eccentricity))
          [] self.class = "Parabolic" -> elements.semimajor_axis
          [] self.class = "Hyperbolic" ->
                Mul(elements.semimajor_axis, Sub(One, elements.eccentricity))

parameter_bug(self) ==
    LET elements == self.elements
    IN  CASE self.class = "Circular" -> elements.semimajor_axis
          [] self.class = "Elliptical" ->
                Mul(elements.semimajor_axis, Sub(One, elements.eccentricity))
          [] self.class = "Parabolic" -> Mul(Two, elements.semimajor_axis)
          [] self.class = "Hyperbolic" ->
                Mul(elements.semimajor_axis, Sub(One, elements.eccentricity))

\* p
parameter(self) ==
    LET elements == self.elements
    IN  CASE self.class = "Circular" -> elements.semimajor_axis
          [] self.class = "Elliptical" ->
                Mul(elements.semimajor_axis, Sub(One, Powf2(elements.eccentricity)))
          [] self.class = "Parabolic" -> Mul(Two, elements.semimajor_axis)
          [] self.class = "Hyperbolic" ->
                Mul(elements.semimajor_axis, Sub(One, Powf2(elements.eccentricity)))

\* E
total_energy(self, body) ==
    LET elements == self.elements
    IN  CASE self.class = "Circular" ->
                Mul(Div(Neg(body.k), Two), elements.semimajor_axis)
          [] self.class = "Elliptical" ->
                Mul(Div(Neg(body.k), Two), elements.semimajor_axis)
          [] self.class = "Parabolic" -> Zero
          [] self.class = "Hyperbolic" ->
                Mul(Div(Neg(body.k), Two), elements.semimajor_axis)

distance_from_parent(self, body, anomaly) ==
    LET elements == self.elements
    IN  CASE self.class = "Circular" -> elements.semimajor_axis
          [] self.class = "Elliptical" ->
                Div(parameter(self),
                    Add(One, Mul(elements.eccentricity, cos(anomaly.true_anomaly))))
          [] self.class = "Parabolic" ->
                Div(Mul(Two, periapsis(self)), Add(One, cos(anomaly.true_anomaly)))
          [] self.class = "Hyperbolic" ->
                Div(parameter(self),
                    Add(One, Mul(elements.eccentricity, cos(anomaly.true_anomaly))))

velocity(self, body, anomaly) ==
    LET elements == self.elements
    IN  CASE self.class = "Circular" ->
                Mul(body.k, Div(One, elements.semimajor_axis))
          [] self.class = "Elliptical" ->
                Sqrt(Mul(body.k,
                         Sub(Div(Two, distance_from_parent(self, body, anomaly)),
                             Div(One, elements.semimajor_axis))))
          [] self.class = "Parabolic" ->
                Sqrt(Mul(body.k, Div(Two, distance_from_parent(self, body, anomaly))))
          [] self.class = "Hyperbolic" ->
                Sqrt(Mul(body.k,
                         Sub(Div(Two, distance_from_parent(self, body, anomaly)),
                             Div(One, elements.semimajor_axis))))

\* Vq
velocity_at_periapsis(self, body) ==
    LET elements == self.elements
    IN  CASE self.class = "Circular" ->
                Sqrt(Div(body.k, elements.semimajor_axis))
          [] self.class = "Elliptical" ->
                Sqrt(Div(Mul(Div(body.k, elements.semimajor_axis),
                             Add(One, elements.eccentricity)),
                         Sub(One, elements.eccentricity)))
          [] self.class = "Parabolic" ->
                Sqrt(Div(Mul(body.k, periapsis(self)), Two))
          [] self.class = "Hyperbolic" ->
                Sqrt(Div(Mul(Div(body.k, elements.semimajor_axis),
                             Add(One, elements.eccentricity)),
                         Sub(elements.eccentricity, One)))

\* A - rate of area swept by orbit
areal_velocity(self, body) ==
    LET elements == self.elements
    IN  CASE self.class = "Circular" ->
                Sqrt(Mul(body.k, elements.semimajor_axis))
          [] self.class = "Elliptical" ->
                Sqrt(Div(Mul(Mul(body.k, elements.semimajor_axis),
                             Add(One, elements.eccentricity)),
                         Sub(One, elements.eccentricity)))
          [] self.class = "Parabolic" ->
                Sqrt(Div(Mul(body.k, periapsis(self)), Two))
          [] self.class = "Hyperbolic" ->
                Sqrt(Div(Mul(Mul(body.k, elements.semimajor_axis),
                             Add(One, elements.eccentricity)),
                         Sub(elements.eccentricity, One)))

orbital_period_bug(self, body) ==
    LET elements == self.elements
        P == Mul(Mul(Two, PI), Sqrt(Div(Powf3(elements.semimajor_axis), body.k)))
    IN  CASE self.class = "Circular" -> Some(P)
          [] self.class = "Elliptical" -> Some(P)
          [] self.class = "Parabolic" -> None
          [] self.class = "Hyperbolic" -> Some(P)

\* P
orbital_period(self, body) ==
    LET elements == self.elements
    IN  CASE self.class = "Circular" ->
                Some(Mul(Mul(Two, PI),
                         Sqrt(Div(Powf3(elements.semimajor_axis), body.k))))
          [] self.class = "Elliptical" ->
                Some(Mul(Mul(Two, PI),
                         Sqrt(Div(Powf3(elements.semimajor_axis), body.k))))
          [] self.class = "Parabolic" -> None
          [] self.class = "Hyperbolic" -> None

eccentric_anomaly(self, anomaly) ==
    LET elements == self.elements
        nu == anomaly.true_anomaly
    IN  CASE self.class = "Circular" -> nu
          [] self.class = "Elliptical" ->
                acos(Div(Add(elements.eccentricity, cos(nu)),
                         Add(One, Mul(elements.eccentricity, cos(nu)))))
          [] self.class = "Parabolic" -> F64(tan_half(nu))
          [] self.class = "Hyperbolic" ->
                acosh(Div(Add(elements.eccentricity, cos(nu)),
                          Add(One, Mul(elements.eccentricity, cos(nu)))))

\* The Elliptical and Hyperbolic results are an angle (a hyperbolic angle)
\* minus (subtracted from) an f64 x; the record stands for the f64 that the
\* subtraction rounds to, so equal records are equal f64 values.  When the
\* eccentric anomaly is NaN or inf, so are its sin and sinh.
mean_anomaly(self, anomaly) ==
    LET elements == self.elements
    IN  CASE self.class = "Circular" -> anomaly.true_anomaly
          [] self.class = "Elliptical" ->
                LET E == eccentric_anomaly(self, anomaly)
                IN  IF E.t = "f64"
                    THEN F64(Sub(E.v, Mul(elements.eccentricity, E.v)))
                    ELSE [t |-> "E - x", E |-> E,
                          x |-> Mul(elements.eccentricity, sin(E))]
          [] self.class = "Parabolic" ->
                LET D == eccentric_anomaly(self, anomaly).v
                IN  F64(Add(D, Div(Powf3(D), Q(3))))
          [] self.class = "Hyperbolic" ->
                LET F == eccentric_anomaly(self, anomaly)
                IN  IF F.t = "f64"
                    THEN F64(Sub(Mul(elements.eccentricity, F.v), F.v))
                    ELSE [t |-> "x - F", F |-> F,
                          x |-> Mul(elements.eccentricity, sinh(F))]

Panic == [t |-> "panic", msg |-> "Not implemented"]

next_anomaly(self, dT, body, anomaly) == Panic

---------------------------------------------------------------------------
(* Inputs *)

Half == [n |-> 1, d |-> 2]

\* true anomalies in (-pi, pi): 0, and pairs +nu, -nu with the same cosine c
\* and sines +sqrt(1 - c^2), -sqrt(1 - c^2)
TrueAnomalies ==
    {Angle(One, Zero)} \cup
    {Angle(c, QMul(Q(sg), Sqrt(Sub(One, Mul(c, c))))) :
        c \in {Half, QNeg(Half), [n |-> -3, d |-> 4]}, sg \in {1, -1}}

Anomalies ==
    {[time_ms |-> t, true_anomaly |-> nu, mean_anomaly |-> Zero,
      eccentric_anomaly |-> Zero] : t \in 0..MaxTime, nu \in TrueAnomalies}

Eccentricities ==
    {Q(-1), Zero, [n |-> 3, d |-> 8], [n |-> 13, d |-> 16], One,
     [n |-> 5, d |-> 4], Two}

Elements ==
    {KeplerianElements(Q(a), e) : a \in (-MaxA)..MaxA, e \in Eccentricities}

\* bodies built with the struct literal, k computed by Body::k
Bodies ==
    {[mass |-> Q(m), radius |-> One, G |-> One, k |-> Body_k(Q(m), One)] :
        m \in 1..MaxMass}

---------------------------------------------------------------------------
(* State: the values a single-threaded caller holds, and its one call in  *)
(* flight: op is "idle" between calls, else the function that returned res *)

VARIABLES body, orbit, anomaly, dT, op, res

vars == <<body, orbit, anomaly, dT, op, res>>

NoOrbit == [class |-> "unconstructed"]
NoResult == [t |-> "none"]

Init ==
    /\ body \in Bodies
    /\ anomaly \in Anomalies
    /\ orbit = NoOrbit
    /\ dT = 0
    /\ op = "idle"
    /\ res = NoResult

\* the enum's tuple-variant constructors: any elements are accepted
Construct(o) ==
    /\ op = "idle"
    /\ orbit = NoOrbit
    /\ orbit' = o
    /\ UNCHANGED <<body, anomaly, dT, op, res>>

NewCircular == \E el \in Elements : Construct(Circular(el))
NewElliptical == \E el \in Elements : Construct(Elliptical(el))
NewParabolic == \E el \in Elements : Construct(Parabolic(el))
NewHyperbolic == \E el \in Elements : Construct(Hyperbolic(el))

Default ==
    /\ op = "idle"
    /\ body # Body_default
    /\ body' = Body_default
    /\ UNCHANGED <<orbit, anomaly, dT, op, res>>

Call(name, result) ==
    /\ op = "idle"
    /\ orbit # NoOrbit
    /\ op' = name
    /\ res' = result
    /\ UNCHANGED <<body, orbit, anomaly, dT>>

Eccentricity == Call("eccentricity", F64(eccentricity(orbit)))
SemimajorAxis == Call("semimajor_axis", semimajor_axis(orbit))
Periapsis == Call("periapsis", F64(periapsis(orbit)))
Parameter == Call("parameter", F64(parameter(orbit)))
TotalEnergy == Call("total_energy", F64(total_energy(orbit, body)))
DistanceFromParent ==
    Call("distance_from_parent", F64(distance_from_parent(orbit, body, anomaly)))
Velocity == Call("velocity", F64(velocity(orbit, body, anomaly)))
VelocityAtPeriapsis ==
    Call("velocity_at_periapsis", F64(velocity_at_periapsis(orbit, body)))
ArealVelocity == Call("areal_velocity", F64(areal_velocity(orbit, body)))
OrbitalPeriod == Call("orbital_period", orbital_period(orbit, body))
EccentricAnomaly == Call("eccentric_anomaly", eccentric_anomaly(orbit, anomaly))
MeanAnomaly == Call("mean_anomaly", mean_anomaly(orbit, anomaly))

NextAnomaly ==
    \E d \in 0..MaxDT :
        /\ op = "idle"
        /\ orbit # NoOrbit
        /\ dT' = d
        /\ op' = "next_anomaly"
        /\ res' = next_anomaly(orbit, d, body, anomaly)
        /\ UNCHANGED <<body, orbit, anomaly>>

\* the caller takes the returned value and is ready for its next call; a
\* panic unwinds the caller instead, and nothing runs after it
Return ==
    /\ op # "idle"
    /\ res.t # "panic"
    /\ op' = "idle"
    /\ res' = NoResult
    /\ UNCHANGED <<body, orbit, anomaly, dT>>

Next ==
    \/ NewCircular
    \/ NewElliptical
    \/ NewParabolic
    \/ NewHyperbolic
    \/ Default
    \/ Eccentricity
    \/ SemimajorAxis
    \/ Periapsis
    \/ Parameter
    \/ TotalEnergy
    \/ DistanceFromParent
    \/ Velocity
    \/ VelocityAtPeriapsis
    \/ ArealVelocity
    \/ OrbitalPeriod
    \/ EccentricAnomaly
    \/ MeanAnomaly
    \/ NextAnomaly
    \/ Return

Spec == Init /\ [][Next]_vars

---------------------------------------------------------------------------
(* Properties *)

\* elements consistent with the orbit's class (periapsis distance > 0)
ValidElements(o) ==
    LET a == o.elements.semimajor_axis
        e == o.elements.eccentricity
    IN  CASE o.class = "Circular" -> Lt(Zero, a)
          [] o.class = "Elliptical" -> Le(Zero, e) /\ Lt(e, One) /\ Lt(Zero, a)
          [] o.class = "Parabolic" -> Lt(Zero, a)
          [] o.class = "Hyperbolic" -> Lt(One, e) /\ Lt(a, Zero)
          [] OTHER -> FALSE

\* x agrees with y to a relative error of 1/8: far looser than any
\* tolerance the properties below ask for, and far above rounding error,
\* so a failure of Close is a failure of the stricter statement too.
Close(x, y) ==
    /\ ~IsNaN(x) /\ ~IsNaN(y)
    /\ \/ x = y
       \/ IsFinite(x) /\ IsFinite(y) /\ Le(QMul(Q(8), QAbs(QSub(x, y))), QAbs(y))

\* two results of an anomaly conversion are the same f64 value
SameF64(x, y) ==
    /\ x.t = y.t
    /\ IF x.t = "f64" THEN Eq(x.v, y.v)
       ELSE IF x.t = "angle" THEN Eq(x.c, y.c) /\ Eq(x.s, y.s)
       ELSE x = y /\ ~IsNaN(x.x)

AtPeriapsis(an) == [an EXCEPT !.true_anomaly = Angle(One, Zero)]

\* C1: after next_anomaly(dT, body, anomaly) the caller holds a new Anomaly
\* whose time is the starting anomaly's time plus dT.
C1_AdvanceAddsTimeDelta ==
    op = "next_anomaly" =>
        /\ res.t = "Anomaly"
        /\ res.time_ms = anomaly.time_ms + dT

\* C2: on an orbit with valid elements, no other true anomaly in (-pi, pi)
\* has the mean anomaly just computed (so the true anomaly can be recovered
\* from the mean anomaly).
C2_MeanAnomalyInjective ==
    (op = "mean_anomaly" /\ ValidElements(orbit)) =>
        \A nu \in TrueAnomalies \ {anomaly.true_anomaly} :
            ~SameF64(mean_anomaly(orbit, [anomaly EXCEPT !.true_anomaly = nu]), res)

\* C3: the body the caller holds has k = mass * G.
C3_BodyKInSync == Eq(body.k, Mul(body.mass, body.G))

\* C4: total_energy is -k/(2a) for Circular, Elliptical and Hyperbolic orbits
\* with a # 0, and exactly 0 for a Parabolic orbit.
C4_TotalEnergy ==
    op = "total_energy" =>
        IF orbit.class = "Parabolic" THEN res.v = Zero
        ELSE orbit.elements.semimajor_axis # Zero =>
                Close(res.v, QDiv(QNeg(body.k),
                                  QMul(Two, orbit.elements.semimajor_axis)))

\* C5: every Elliptical orbit that exists has 0 <= e < 1 and a > 0, every
\* Hyperbolic orbit has e > 1 (construction rejects anything else).
C5_ElementsValidated ==
    /\ orbit.class = "Elliptical" =>
          /\ Le(Zero, orbit.elements.eccentricity)
          /\ Lt(orbit.elements.eccentricity, One)
          /\ Lt(Zero, orbit.elements.semimajor_axis)
    /\ orbit.class = "Hyperbolic" => Lt(One, orbit.elements.eccentricity)

\* C6: semimajor_axis() is None exactly for Parabolic, orbital_period() is
\* None exactly for Parabolic and Hyperbolic; otherwise Some; neither panics.
C6_OptionalQueries ==
    /\ op = "semimajor_axis" =>
          /\ res.t \in {"Some", "None"}
          /\ res.t = "None" <=> orbit.class = "Parabolic"
    /\ op = "orbital_period" =>
          /\ res.t \in {"Some", "None"}
          /\ res.t = "None" <=> orbit.class \in {"Parabolic", "Hyperbolic"}

C6_Witness ==
    /\ op = "orbital_period"
    /\ orbit.class = "Hyperbolic"
    /\ ValidElements(orbit)
    /\ res = None

\* the Elliptical orbit with eccentricity 0 and the same other elements
DegenerateEllipse(o) == Elliptical([o.elements EXCEPT !.eccentricity = Zero])

\* C7: a Circular orbit (a > 0, k > 0) and the Elliptical orbit with e = 0 and
\* the same semimajor axis agree on distance_from_parent, velocity and
\* orbital_period, the velocity being sqrt(k/a).
C7_DegenerateAgreement ==
    (orbit.class = "Circular" /\ ValidElements(orbit) /\ Lt(Zero, body.k)) =>
        /\ op = "distance_from_parent" =>
              Close(res.v, distance_from_parent(DegenerateEllipse(orbit), body, anomaly))
        /\ op = "velocity" =>
              /\ Close(res.v, velocity(DegenerateEllipse(orbit), body, anomaly))
              /\ Close(res.v, Sqrt(Div(body.k, orbit.elements.semimajor_axis)))
        /\ op = "orbital_period" =>
              /\ res.t = "Some"
              /\ Close(res.v, orbital_period(DegenerateEllipse(orbit), body).v)

\* C8: on valid elements, areal_velocity(body) is sqrt(k * parameter()).
C8_ArealVelocity ==
    (op = "areal_velocity" /\ ValidElements(orbit)) =>
        Close(res.v, Sqrt(Mul(body.k, parameter(orbit))))

\* the vis-viva speed at r = periapsis()
VisVivaAtPeriapsis(o, b) ==
    LET q == periapsis(o)
        a == o.elements.semimajor_axis
    IN  CASE o.class = "Circular" -> Sqrt(QDiv(b.k, a))
          [] o.class = "Parabolic" -> Sqrt(QDiv(QMul(Two, b.k), q))
          [] OTHER -> Sqrt(QMul(b.k, QSub(QDiv(Two, q), QDiv(One, a))))

\* C9: on valid elements, velocity_at_periapsis(body) is velocity(body, anomaly)
\* at true anomaly 0, the vis-viva speed at r = periapsis().
C9_VelocityAtPeriapsis ==
    (op = "velocity_at_periapsis" /\ ValidElements(orbit)) =>
        /\ Close(res.v, velocity(orbit, body, AtPeriapsis(anomaly)))
        /\ Close(res.v, VisVivaAtPeriapsis(orbit, body))

\* unit roundoff of the floating-point format
Roundoff == [n |-> 1, d |-> Pow2(MantBits)]

\* accumulated rounding error of p/(1+e) against a*(1-e), times |1+e|
RoundingBound(o) ==
    LET a == o.elements.semimajor_axis
        e == eccentricity(o)
    IN  QMul(QMul(Roundoff, QAbs(a)),
             QAdd(QMul(Q(8), QAbs(QSub(One, QMul(e, e)))), QMul(Two, QMul(e, e))))

WithinRounding(x, y, bound) ==
    IsFinite(x) /\ IsFinite(y) /\ Le(QAbs(QSub(x, y)), bound)

=============================================================================
